---- MODULE Spec2Model ----
(***************************************************************************)
(* Model of the SSF/CAEP lab MCP server (src/mcp-server/server.py) and of  *)
(* the way src/mcp-server/test_client.py drives it.                        *)
(*                                                                         *)
(* Strings are sequences of one-character strings, so that str.lower(),    *)
(* the substring test `in`, str.startswith() and Path.resolve() are        *)
(* computed on characters as the code computes them.                       *)
(*                                                                         *)
(* The handlers are coroutines on one asyncio event loop: the only point   *)
(* at which handle_file_read is suspended is the HTTP POST inside          *)
(* generate_caep_event.  Each action below is one run-to-suspension block. *)
(***************************************************************************)
EXTENDS Integers, Sequences, FiniteSets

(***************************************************************************)
(* Bounds of the model                                                     *)
(***************************************************************************)
MaxCalls == 2        \* tool calls issued in one process run
MaxClock == 1        \* int(time.time()) ranges over 0..MaxClock

Calls == 1..MaxCalls

\* The process is the MCP server (main of server.py: one SecurityMCPServer, tool
\* calls dispatched concurrently) or the test client (main of test_client.py: a
\* new SecurityMCPServer for every call, each call awaited before the next).
Drivers == {"server", "test_client"}

\* SecurityMCPServer objects: 0 is the server's own, c the one the test client
\* constructs for its call c
Instances == 0..MaxCalls

(***************************************************************************)
(* Characters and strings                                                  *)
(***************************************************************************)
UpperChars == <<"A","B","C","D","E","F","G","H","I","J","K","L","M","N","O","P","Q","R","S","T","U","V","W","X","Y","Z">>
LowerChars == <<"a","b","c","d","e","f","g","h","i","j","k","l","m","n","o","p","q","r","s","t","u","v","w","x","y","z">>

\* str.lower() on one character
LowerChar(c) ==
    IF \E i \in 1..Len(UpperChars) : UpperChars[i] = c
    THEN LowerChars[CHOOSE i \in 1..Len(UpperChars) : UpperChars[i] = c]
    ELSE c

\* str.lower()
lower(s) == [i \in 1..Len(s) |-> LowerChar(s[i])]

\* Python's `pattern in text` on strings
contains(pattern, text) ==
    \E i \in 0..(Len(text) - Len(pattern)) :
        SubSeq(text, i + 1, i + Len(pattern)) = pattern

\* str.startswith(prefix)
startswith(s, prefix) ==
    /\ Len(s) >= Len(prefix)
    /\ SubSeq(s, 1, Len(prefix)) = prefix

Slash == <<"/">>

\* dir / name
Join(dir, name) == dir \o Slash \o name

(***************************************************************************)
(* Configuration set in SecurityMCPServer.__init__ and in the handlers     *)
(***************************************************************************)
monitored_patterns ==
    << <<".","s","e","c","r","e","t">>,
       <<".","c","r","e","d","e","n","t","i","a","l","s">>,
       <<"/","s","e","c","u","r","e","/">>,
       <<"a","p","i","-","k","e","y">>,
       <<"p","a","s","s","w","o","r","d">> >>

\* the literal "/workspace/test-files" of the sandbox test
SandboxPrefix == <<"/","w","o","r","k","s","p","a","c","e","/","t","e","s","t","-","f","i","l","e","s">>

\* aiohttp.ClientTimeout(total=2)
ClientTimeout == 2

(***************************************************************************)
(* The filesystem the server runs on                                       *)
(***************************************************************************)
Workspace == <<"/","w","o","r","k","s","p","a","c","e">>
TestFiles == Join(Workspace, <<"t","e","s","t","-","f","i","l","e","s">>)
EvilDir == Join(Workspace, <<"t","e","s","t","-","f","i","l","e","s","-","e","v","i","l">>)
Etc == <<"/","e","t","c">>

nPublic == <<"p","u","b","l","i","c","-","d","a","t","a",".","t","x","t">>
nApiKeys == <<"a","p","i","-","k","e","y","s",".","c","r","e","d","e","n","t","i","a","l","s">>
nSecure == <<"S","e","c","u","r","e">>
nNotes == <<"n","o","t","e","s",".","t","x","t">>
nOld == <<"o","l","d">>
nLink == <<"l","i","n","k">>
nLoop == <<"l","o","o","p">>
nImage == <<"i","m","a","g","e",".","b","i","n">>
nPrivate == <<"p","r","i","v","a","t","e">>
nX == <<"x">>
nPasswd == <<"p","a","s","s","w","d">>
nPassword == <<"P","a","s","s","w","o","r","d">>
nMissing == <<"m","i","s","s","i","n","g",".","t","x","t">>
nApiKey == <<"a","p","i","-","k","e","y">>

NoContent == "<none>"

\* kind: "file" | "dir" | "symlink".  decodes: read_text() can decode the file.
\* access: the directory can be searched and listed (mode is not 000).
FsEntry(path, kind, content, children, target, decodes, access) ==
    [path |-> path, kind |-> kind, content |-> content, children |-> children,
     target |-> target, decodes |-> decodes, access |-> access]

FileSystem ==
    { FsEntry(Workspace, "dir", NoContent, <<>>, <<>>, TRUE, TRUE),
      FsEntry(TestFiles, "dir", NoContent,
              <<nPublic, nApiKeys, nSecure, nLink, nLoop, nImage, nPrivate>>, <<>>, TRUE, TRUE),
      FsEntry(Join(TestFiles, nPublic), "file", "public data", <<>>, <<>>, TRUE, TRUE),
      FsEntry(Join(TestFiles, nApiKeys), "file", "token=123", <<>>, <<>>, TRUE, TRUE),
      FsEntry(Join(TestFiles, nSecure), "dir", NoContent, <<nNotes, nOld>>, <<>>, TRUE, TRUE),
      FsEntry(Join(Join(TestFiles, nSecure), nOld), "dir", NoContent, <<>>, <<>>, TRUE, TRUE),
      FsEntry(Join(Join(TestFiles, nSecure), nNotes), "file", "notes", <<>>, <<>>, TRUE, TRUE),
      FsEntry(Join(TestFiles, nLink), "symlink", NoContent, <<>>, Join(Etc, nPasswd), TRUE, TRUE),
      FsEntry(Join(TestFiles, nLoop), "symlink", NoContent, <<>>, Join(TestFiles, nLoop), TRUE, TRUE),
      FsEntry(Join(TestFiles, nImage), "file", "binary", <<>>, <<>>, FALSE, TRUE),
      FsEntry(Join(TestFiles, nPrivate), "dir", NoContent, <<nX>>, <<>>, TRUE, FALSE),
      FsEntry(Join(Join(TestFiles, nPrivate), nX), "file", "private x", <<>>, <<>>, TRUE, TRUE),
      FsEntry(EvilDir, "dir", NoContent, <<nX>>, <<>>, TRUE, TRUE),
      FsEntry(Join(EvilDir, nX), "file", "evil", <<>>, <<>>, TRUE, TRUE),
      FsEntry(Etc, "dir", NoContent, <<nPasswd>>, <<>>, TRUE, TRUE),
      FsEntry(Join(Etc, nPasswd), "file", "root:x:0:0", <<>>, <<>>, TRUE, TRUE) }

\* os.getcwd() of the server process
Cwd == Workspace

HasEntry(p) == \E e \in FileSystem : e.path = p
Entry(p) == CHOOSE e \in FileSystem : e.path = p
Kind(p) == IF HasEntry(p) THEN Entry(p).kind ELSE "absent"

\* stat(p) fails with EACCES: p lies below a directory that cannot be searched
StatDenied(p) ==
    \E e \in FileSystem :
        /\ e.kind = "dir"
        /\ ~e.access
        /\ startswith(p, e.path \o Slash)

(***************************************************************************)
(* Path(filepath).resolve(): make absolute, drop "." and empty segments,   *)
(* pop on "..", follow symbolic links; a symbolic-link loop raises         *)
(* RuntimeError.  A path that does not exist resolves without error.       *)
(***************************************************************************)
RECURSIVE SplitFrom(_, _, _)
SplitFrom(s, i, cur) ==
    IF i > Len(s) THEN <<cur>>
    ELSE IF s[i] = "/" THEN <<cur>> \o SplitFrom(s, i + 1, <<>>)
    ELSE SplitFrom(s, i + 1, Append(cur, s[i]))

\* str.split("/")
Split(s) == SplitFrom(s, 1, <<>>)

RECURSIVE JoinSegs(_)
JoinSegs(segs) ==
    IF segs = <<>> THEN <<>>
    ELSE Slash \o Head(segs) \o JoinSegs(Tail(segs))

\* the absolute path made of the segments
PathOf(segs) == IF segs = <<>> THEN Slash ELSE JoinSegs(segs)

Absolute(s) == IF Len(s) > 0 /\ s[1] = "/" THEN s ELSE Join(Cwd, s)

RECURSIVE Walk(_, _, _)
Walk(acc, segs, seen) ==
    IF segs = <<>> THEN [ok |-> TRUE, path |-> PathOf(acc)]
    ELSE LET seg == Head(segs)
             rest == Tail(segs)
             cand == PathOf(Append(acc, seg))
         IN  IF seg = <<>> \/ seg = <<".">> THEN Walk(acc, rest, seen)
             ELSE IF seg = <<".", ".">>
                  THEN Walk(IF acc = <<>> THEN acc ELSE SubSeq(acc, 1, Len(acc) - 1), rest, seen)
             ELSE IF Kind(cand) = "symlink"
                  THEN IF cand \in seen
                       THEN [ok |-> FALSE, path |-> <<>>]
                       ELSE Walk(<<>>, Split(Entry(cand).target) \o rest, seen \cup {cand})
             ELSE Walk(Append(acc, seg), rest, seen)

resolve(filepath) == Walk(<<>>, Split(Absolute(filepath)), {})

(***************************************************************************)
(* pathlib queries on a path; is_dir and is_file follow symbolic links and *)
(* answer False on a loop                                                  *)
(***************************************************************************)
FollowKind(p) ==
    LET rs == resolve(p) IN IF rs.ok THEN Kind(rs.path) ELSE "absent"

exists(p) == FollowKind(p) # "absent"
is_file(p) == FollowKind(p) = "file"
is_dir(p) == FollowKind(p) = "dir"

(***************************************************************************)
(* SecurityMCPServer.is_sensitive_file                                     *)
(***************************************************************************)
\* variant: the path is not lower-cased before the test
is_sensitive_file_no_lower(filepath) ==
    \E k \in 1..Len(monitored_patterns) : contains(monitored_patterns[k], filepath)

\* variant: the test is inverted (not any(...))
is_sensitive_file_inverted(filepath) ==
    ~(\E k \in 1..Len(monitored_patterns) :
          contains(monitored_patterns[k], lower(filepath)))

\* the method with self.monitored_patterns explicit
is_sensitive_file_with(patterns, filepath) ==
    LET filepath_lower == lower(filepath)
    IN  \E k \in 1..Len(patterns) : contains(patterns[k], filepath_lower)

\* the method on a SecurityMCPServer as __init__ leaves it
is_sensitive_file(filepath) == is_sensitive_file_with(monitored_patterns, filepath)

(***************************************************************************)
(* Results: the single TextContent a handler returns, by its leading text. *)
(* "propagated" stands for an exception leaving the handler.               *)
(***************************************************************************)
\* (the path every text names is the call's abs_path)
NoResult ==
    [kind |-> "none", notice |-> FALSE, content |-> NoContent,
     entries |-> <<>>, error |-> "none"]

Denied == [NoResult EXCEPT !.kind = "denied"]
FileNotFound == [NoResult EXCEPT !.kind = "notfound"]
DirectoryNotFound == [NoResult EXCEPT !.kind = "notfound"]
\* variant: the event notice is left out of the text
FileContentNoNotice(is_sensitive, content) ==
    [NoResult EXCEPT !.kind = "content", !.content = content]

FileContent(is_sensitive, content) ==
    [NoResult EXCEPT !.kind = "content", !.notice = is_sensitive, !.content = content]
Listing(files) == [NoResult EXCEPT !.kind = "listing", !.entries = files]
ErrorText(e) == [NoResult EXCEPT !.kind = "error", !.error = e]
Propagated(e) == [NoResult EXCEPT !.kind = "propagated", !.error = e]

\* the classes `except Exception` catches, among those raised here
ExceptionClasses ==
    {"RuntimeError", "PermissionError", "UnicodeDecodeError",
     "ClientConnectorError", "TimeoutError"}

\* variant: except OSError
read_catches_os_error(e) == e = "PermissionError"

\* handle_file_read: except Exception as e
read_catches(e) == e \in ExceptionClasses

\* handle_list_files: except Exception as e
list_catches(e) == e \in ExceptionClasses

\* variant: except aiohttp.ClientError, which a timeout is not
emit_catches_client_error(e) == e = "ClientConnectorError"

\* generate_caep_event: except Exception as e
emit_catches(e) == e \in ExceptionClasses

ReadFailure(e) == IF read_catches(e) THEN ErrorText(e) ELSE Propagated(e)
ListFailure(e) == IF list_catches(e) THEN ErrorText(e) ELSE Propagated(e)

(***************************************************************************)
(* The requests a client makes                                             *)
(***************************************************************************)
RequestedPaths ==
    << Join(TestFiles, nPublic),
       Join(TestFiles, nApiKeys),
       <<"t","e","s","t","-","f","i","l","e","s","/",".","/">> \o nMissing,
       TestFiles,
       Join(Etc, nPasswd),
       Join(Etc, nPassword),
       Join(EvilDir, nX),
       TestFiles \o <<"/",".",".","/",".",".","/","e","t","c","/">> \o nPasswd,
       Join(TestFiles, nLink),
       Join(TestFiles, nLoop),
       Join(TestFiles, nImage),
       Join(Join(TestFiles, nPrivate), nX),
       Join(TestFiles, nSecure),
       Etc,
       Join(TestFiles, nPrivate),
       Join(Join(TestFiles, nSecure), nOld),
       Join(EvilDir, nApiKey) >>

\* paths asked of read_file_secure and of list_files_secure
ReadPaths == 1..12 \cup {17}
ListPaths == {1, 4, 10, 12, 13, 14, 15, 16}

\* what the collector does with one POST
CollectorReplies == {"200", "500", "refused", "silent"}

\* a table: the sequence of f's values, each computed once
Table(f) == <<>> \o f

\* Path(filepath).resolve() of every requested path
Resolved == Table([p \in 1..Len(RequestedPaths) |-> resolve(RequestedPaths[p])])

(***************************************************************************)
(* State                                                                   *)
(***************************************************************************)
VARIABLES
    driver,        \* which main() runs this process
    event_count,   \* self.event_count of every SecurityMCPServer
    clock,         \* the last value int(time.time()) returned; time never runs back
    events,        \* the CAEP events built so far, in order, each with the
                   \* call and the SecurityMCPServer that built it
    req,           \* the tool calls: position, locals (the requested path by its
                   \* index in RequestedPaths) and result
    console,       \* the "SSF EVENT GENERATED" blocks printed so far, in order
                   \* (the line printed for a delivery is req[c].outcome)
    cls            \* a direct call of is_sensitive_file: the object's
                   \* monitored_patterns, the argument and the value returned

vars == <<driver, event_count, clock, events, req, console, cls>>

IdleCall ==
    [pc |-> "idle", op |-> "none", path |-> 0, resolved |-> FALSE,
     is_sensitive |-> FALSE, reply |-> "none", outcome |-> "none",
     trace |-> <<>>, result |-> NoResult]

\* no direct call: the object is as __init__ leaves it
NoClassify ==
    [patterns |-> monitored_patterns, filepath |-> <<>>,
     called |-> FALSE, verdict |-> FALSE]

Init ==
    /\ driver \in Drivers
    /\ event_count = [i \in Instances |-> 0]
    /\ clock = 0
    /\ events = <<>>
    /\ req = [c \in Calls |-> IdleCall]
    /\ console = <<>>
    /\ cls = NoClassify

\* the local abs_path of call c, once Path(filepath).resolve() has returned it
AbsPathOf(c) == Resolved[req[c].path].path

\* variant: a call is served only when every earlier one has returned
MayStartBlocking(c) ==
    /\ req[c].pc = "idle"
    /\ \A d \in Calls : d < c => req[d].pc = "done"

\* calls are numbered in the order they arrive
MayStart(c) ==
    /\ req[c].pc = "idle"
    /\ \A d \in Calls : d < c => req[d].pc # "idle"
    /\ driver = "test_client" => \A d \in Calls : d < c => req[d].pc = "done"

\* the call that can arrive now, if any
Arriving == {c \in Calls : MayStart(c)}

\* the SecurityMCPServer that serves call c
InstanceOf(c) == IF driver = "server" THEN 0 ELSE c

(***************************************************************************)
(* handle_file_read, lines 94-113: the sandbox test, the existence test    *)
(* and the read, with the failures they raise                              *)
(***************************************************************************)
\* str(abs_path).startswith("/workspace/test-files")
within_sandbox(abs_path) == startswith(abs_path, SandboxPrefix)

ReadTail(abs_path, is_sensitive) ==
    IF ~within_sandbox(abs_path)
    THEN [result |-> Denied, trace |-> <<"sandbox", "return">>]
    ELSE IF StatDenied(abs_path)
    THEN [result |-> ReadFailure("PermissionError"),
          trace |-> <<"sandbox", "exists", "raise", "return">>]
    ELSE IF exists(abs_path) /\ is_file(abs_path)
    THEN IF Entry(abs_path).decodes
         THEN [result |-> FileContent(is_sensitive, Entry(abs_path).content),
               trace |-> <<"sandbox", "exists", "read", "return">>]
         ELSE [result |-> ReadFailure("UnicodeDecodeError"),
               trace |-> <<"sandbox", "exists", "read", "raise", "return">>]
    ELSE [result |-> FileNotFound,
          trace |-> <<"sandbox", "exists", "return">>]

\* the handlers' pure steps, evaluated once for every requested path
Classified ==
    Table([p \in 1..Len(RequestedPaths) |->
        Resolved[p].ok /\ is_sensitive_file(Resolved[p].path)])
ReadTails ==
    Table([p \in 1..Len(RequestedPaths) |->
        IF Resolved[p].ok THEN ReadTail(Resolved[p].path, Classified[p])
        ELSE [result |-> NoResult, trace |-> <<>>]])

\* the jti of the event: f"event-{int(time.time())}-{self.event_count}"
EventId(seconds, count) == <<"event", seconds, count>>

\* variant: the counter is left as it is
increment_skipped(count) == count

\* self.event_count += 1
increment(count) == count + 1

\* variant: the block is not printed before the POST
print_event_skipped(out, event) == out

\* the four lines printed for the event before it is sent
print_event(out, event) ==
    Append(out, [file |-> event.file_path, risk_level |-> "HIGH",
                 event_id |-> event.jti])

(***************************************************************************)
(* handle_file_read up to the POST of generate_caep_event, or to its       *)
(* return when no event is generated                                       *)
(***************************************************************************)
handle_file_read(c, p, reply, now) ==
    /\ MayStart(c)
    /\ IF Classified[p] THEN reply # "none" /\ now >= clock
                        ELSE reply = "none" /\ now = clock
    /\ LET rs == Resolved[p]
           i == InstanceOf(c)
           call == [IdleCall EXCEPT !.op = "read", !.path = p]
       IN  IF ~rs.ok
           THEN /\ req' = [req EXCEPT ![c] =
                       [call EXCEPT !.pc = "done",
                                    !.trace = <<"resolve", "raise", "return">>,
                                    !.result = ReadFailure("RuntimeError")]]
                /\ UNCHANGED <<event_count, clock, events, console>>
           ELSE IF Classified[p]
           THEN LET count == increment(event_count[i])
                    jti == EventId(now, count)
                    event == [jti |-> jti, file_path |-> rs.path,
                              access_type |-> "file_access", call |-> c, instance |-> i]
                IN  /\ clock' = now
                    /\ event_count' = [event_count EXCEPT ![i] = count]
                    /\ events' = Append(events, event)
                    /\ console' = print_event(console, event)
                    /\ req' = [req EXCEPT ![c] =
                           [call EXCEPT !.pc = "posting",
                                        !.resolved = TRUE,
                                        !.is_sensitive = TRUE,
                                        !.reply = reply,
                                        !.trace = <<"resolve", "classify", "count",
                                                    "record", "post">>]]
           ELSE LET tail == ReadTails[p]
                IN  /\ req' = [req EXCEPT ![c] =
                           [call EXCEPT !.pc = "done",
                                        !.resolved = TRUE,
                                        !.trace = <<"resolve", "classify">> \o tail.trace,
                                        !.result = tail.result]]
                    /\ UNCHANGED <<event_count, clock, events, console>>
    /\ UNCHANGED <<driver, cls>>

(***************************************************************************)
(* generate_caep_event, lines 193-206: the POST ends                       *)
(***************************************************************************)
\* variant: no timeout is given to session.post
PostEndsNoTimeout(reply) == reply \in {"200", "500", "refused"}

\* the total timeout is armed, so a collector that never answers ends the POST
PostEnds(reply) == reply \in {"200", "500", "refused"} \/ ClientTimeout > 0

\* what session.post(...) yields: a status, or an exception
HttpAttempt(reply) ==
    CASE reply = "200" -> [status |-> 200, exc |-> "none"]
      [] reply = "500" -> [status |-> 500, exc |-> "none"]
      [] reply = "refused" -> [status |-> 0, exc |-> "ClientConnectorError"]
      [] reply = "silent" -> [status |-> 0, exc |-> "TimeoutError"]

\* variant: only the status is looked at, an exception counts as a status
DeliveryOutcomeStatusOnly(attempt) ==
    IF attempt.status = 200 THEN "delivered" ELSE "rejected"

\* the log line printed for the attempt
DeliveryOutcome(attempt) ==
    IF attempt.exc # "none" THEN "unreachable"
    ELSE IF attempt.status = 200 THEN "delivered"
    ELSE "rejected"

(***************************************************************************)
(* handle_file_read from the end of the POST to its return                 *)
(***************************************************************************)
handle_file_read_resume(c) ==
    /\ req[c].pc = "posting"
    /\ PostEnds(req[c].reply)
    /\ LET attempt == HttpAttempt(req[c].reply)
           tail == ReadTails[req[c].path]
       IN  IF attempt.exc # "none" /\ ~emit_catches(attempt.exc)
           THEN req' = [req EXCEPT ![c].pc = "done",
                                   ![c].outcome = "raised",
                                   ![c].trace = @ \o <<"raise", "return">>,
                                   ![c].result = ReadFailure(attempt.exc)]
           ELSE req' = [req EXCEPT ![c].pc = "done",
                                   ![c].outcome = DeliveryOutcome(attempt),
                                   ![c].trace = @ \o <<DeliveryOutcome(attempt)>> \o tail.trace,
                                   ![c].result = tail.result]
    /\ UNCHANGED <<driver, event_count, clock, events, console, cls>>

(***************************************************************************)
(* handle_list_files                                                       *)
(***************************************************************************)
\* variant: the directory test comes first
LabelDirectoryFirst(item) ==
    IF is_dir(item) THEN "directory"
    ELSE IF is_sensitive_file(item) THEN "sensitive"
    ELSE "file"

\* the icon of one child: lock, folder or page
Label(item) ==
    IF is_sensitive_file(item) THEN "sensitive"
    ELSE IF is_dir(item) THEN "directory"
    ELSE "file"

\* variant: the listing is sandboxed as the read is
ListRunSandboxed(rs) ==
    IF ~rs.ok
    THEN [result |-> ListFailure("RuntimeError"),
          trace |-> <<"resolve", "raise", "return">>]
    ELSE IF ~within_sandbox(rs.path)
    THEN [result |-> Denied, trace |-> <<"resolve", "sandbox", "return">>]
    ELSE IF StatDenied(rs.path)
    THEN [result |-> ListFailure("PermissionError"),
          trace |-> <<"resolve", "exists", "raise", "return">>]
    ELSE IF ~exists(rs.path) \/ ~is_dir(rs.path)
    THEN [result |-> DirectoryNotFound, trace |-> <<"resolve", "exists", "return">>]
    ELSE IF ~Entry(rs.path).access
    THEN [result |-> ListFailure("PermissionError"),
          trace |-> <<"resolve", "exists", "iterdir", "raise", "return">>]
    ELSE [result |-> Listing(
                 [k \in 1..Len(Entry(rs.path).children) |->
                     [label |-> Label(Join(rs.path, Entry(rs.path).children[k])),
                      name |-> Entry(rs.path).children[k]]]),
          trace |-> <<"resolve", "exists", "iterdir", "label", "return">>]

\* the whole handler, given what Path(dirpath).resolve() yields
ListRun(rs) ==
    IF ~rs.ok
    THEN [result |-> ListFailure("RuntimeError"),
          trace |-> <<"resolve", "raise", "return">>]
    ELSE IF StatDenied(rs.path)
    THEN [result |-> ListFailure("PermissionError"),
          trace |-> <<"resolve", "exists", "raise", "return">>]
    ELSE IF ~exists(rs.path) \/ ~is_dir(rs.path)
    THEN [result |-> DirectoryNotFound, trace |-> <<"resolve", "exists", "return">>]
    ELSE IF ~Entry(rs.path).access
    THEN [result |-> ListFailure("PermissionError"),
          trace |-> <<"resolve", "exists", "iterdir", "raise", "return">>]
    ELSE [result |-> Listing(
                 [k \in 1..Len(Entry(rs.path).children) |->
                     [label |-> Label(Join(rs.path, Entry(rs.path).children[k])),
                      name |-> Entry(rs.path).children[k]]]),
          trace |-> <<"resolve", "exists", "iterdir", "label", "return">>]

ListRuns == Table([p \in 1..Len(RequestedPaths) |-> ListRun(Resolved[p])])

\* variant: a listing of a sensitive directory generates an event
handle_list_files_emitting(c, p) ==
    /\ MayStart(c)
    /\ LET rs == Resolved[p]
           i == InstanceOf(c)
           count == increment(event_count[i])
           event == [jti |-> EventId(clock, count), file_path |-> rs.path,
                     access_type |-> "directory_list", call |-> c, instance |-> i]
       IN  /\ req' = [req EXCEPT ![c] =
                   [IdleCall EXCEPT !.pc = "done", !.op = "list", !.path = p,
                                    !.resolved = rs.ok,
                                    !.trace = ListRuns[p].trace,
                                    !.result = ListRuns[p].result]]
           /\ IF Classified[p]
              THEN /\ event_count' = [event_count EXCEPT ![i] = count]
                   /\ events' = Append(events, event)
                   /\ console' = print_event(console, event)
              ELSE UNCHANGED <<event_count, events, console>>
    /\ UNCHANGED <<driver, clock, cls>>

handle_list_files(c, p) ==
    /\ MayStart(c)
    /\ LET rs == Resolved[p]
       IN  req' = [req EXCEPT ![c] =
               [IdleCall EXCEPT !.pc = "done", !.op = "list", !.path = p,
                                !.resolved = rs.ok,
                                !.trace = ListRuns[p].trace,
                                !.result = ListRuns[p].result]]
    /\ UNCHANGED <<driver, event_count, clock, events, console, cls>>

Next ==
    \/ \E c \in Arriving, p \in ReadPaths, reply \in CollectorReplies \cup {"none"},
          now \in 0..MaxClock :
           handle_file_read(c, p, reply, now)
    \/ \E c \in Calls : handle_file_read_resume(c)
    \/ \E c \in Arriving, p \in ListPaths : handle_list_files(c, p)

Spec == Init /\ [][Next]_vars

\* the event loop runs every coroutine whose awaited POST has ended
LiveSpec == Spec /\ \A c \in Calls : WF_vars(handle_file_read_resume(c))

(***************************************************************************)
(* is_sensitive_file called on its own.  monitored_patterns is an          *)
(* attribute the method reads at every call, so the list is an input of    *)
(* the call like the path: lists in lower case, in upper case, empty, and  *)
(* the same patterns in two orders.                                        *)
(***************************************************************************)
pApiKeyUpper == <<"A","P","I","-","K","E","Y">>
pCredentialsCap == <<".","C","r","e","d","e","n","t","i","a","l","s">>
pSecureCap == <<"/","S","e","c","u","r","e","/">>

PatternLists ==
    { monitored_patterns,
      <<>>,
      << pApiKeyUpper >>,
      << nPassword >>,
      << pSecureCap >>,
      << monitored_patterns[1], monitored_patterns[5] >>,
      << monitored_patterns[5], monitored_patterns[1] >>,
      << pCredentialsCap, monitored_patterns[3] >>,
      << monitored_patterns[3], pCredentialsCap >> }

\* the absolute paths the handlers classify
ClassifyPaths ==
    { Resolved[p].path : p \in {q \in 1..Len(RequestedPaths) : Resolved[q].ok} }

ClassifyInit ==
    /\ driver = "server"
    /\ event_count = [i \in Instances |-> 0]
    /\ clock = 0
    /\ events = <<>>
    /\ req = [c \in Calls |-> IdleCall]
    /\ console = <<>>
    /\ cls \in [patterns : PatternLists, filepath : ClassifyPaths,
                called : {FALSE}, verdict : {FALSE}]

is_sensitive_file_call ==
    /\ ~cls.called
    /\ cls' = [cls EXCEPT !.called = TRUE,
                          !.verdict = is_sensitive_file_with(cls.patterns, cls.filepath)]
    /\ UNCHANGED <<driver, event_count, clock, events, req, console>>

ClassifyNext == is_sensitive_file_call

ClassifySpec == ClassifyInit /\ [][ClassifyNext]_vars

(***************************************************************************)
(* Vocabulary of the properties                                            *)
(***************************************************************************)
\* the sandbox root, /workspace/test-files
SandboxRoot == TestFiles

\* p is the sandbox root or lies below it
InsideRoot(p) == p = SandboxRoot \/ startswith(p, SandboxRoot \o Slash)

\* p matches a sensitivity pattern, case-insensitively
MatchesPattern(p) ==
    \E k \in 1..Len(monitored_patterns) :
        contains(lower(monitored_patterns[k]), lower(p))

\* the existence check or the read of p raises
ReadRaises(p) ==
    \/ StatDenied(p)
    \/ Kind(p) = "file" /\ ~Entry(p).decodes

\* the existence check or the enumeration of p raises
ListRaises(p) ==
    \/ StatDenied(p)
    \/ Kind(p) = "dir" /\ ~Entry(p).access

\* the label the listing owes a child
ExpectedLabel(item) ==
    IF MatchesPattern(item) THEN "sensitive"
    ELSE IF FollowKind(item) = "dir" THEN "directory"
    ELSE "file"

\* the entries the listing of directory p owes
ExpectedEntries(p) ==
    [k \in 1..Len(Entry(p).children) |->
        [label |-> ExpectedLabel(Join(p, Entry(p).children[k])),
         name |-> Entry(p).children[k]]]

\* what the properties ask about a resolved path, for every requested path
\* that resolves
FactsOf(p) ==
    [inside |-> InsideRoot(p),
     matches |-> MatchesPattern(p),
     kind |-> Kind(p),
     content |-> IF Kind(p) = "file" THEN Entry(p).content ELSE NoContent,
     decodes |-> Kind(p) = "file" /\ Entry(p).decodes,
     read_raises |-> ReadRaises(p),
     list_raises |-> ListRaises(p),
     entries |-> IF Kind(p) = "dir" THEN ExpectedEntries(p) ELSE <<>>,
     passes_test |-> within_sandbox(p)]

Facts ==
    Table([p \in 1..Len(RequestedPaths) |->
        IF Resolved[p].ok THEN FactsOf(Resolved[p].path) ELSE FactsOf(<<>>)])

Returned(c) == req[c].pc = "done"
ReadCall(c) == req[c].op = "read" /\ req[c].resolved
ListCall(c) == req[c].op = "list" /\ req[c].resolved

\* the facts of the path call c resolved
Fact(c) == Facts[req[c].path]

\* the events built while serving call c
EventsOf(c) == {k \in 1..Len(events) : events[k].call = c}

DeliveryFailed(c) == req[c].outcome \in {"rejected", "unreachable"}

TextKinds == {"content", "denied", "notfound", "error", "listing"}

(***************************************************************************)
(* C1: a read of a path that resolves outside /workspace/test-files is     *)
(* answered with a denial and never with file content, sensitive or not,   *)
(* existing or not.                                                        *)
(***************************************************************************)
C1_OutsideDenied ==
    \A c \in Calls :
        (Returned(c) /\ ReadCall(c) /\ ~Fact(c).inside)
            => /\ req[c].result.kind = "denied"
               /\ req[c].result.content = NoContent

(***************************************************************************)
(* C2: a read whose resolved path matches a sensitivity pattern, whatever  *)
(* its letter case, makes exactly one emit call, with the resolved path    *)
(* and access type "file_access", whether or not the path exists or lies   *)
(* in the sandbox.                                                         *)
(***************************************************************************)
C2_OneEmitPerSensitiveRead ==
    \A c \in Calls :
        (ReadCall(c) /\ Fact(c).matches)
            => /\ Cardinality(EventsOf(c)) = 1
               /\ \A k \in EventsOf(c) :
                      /\ events[k].file_path = AbsPathOf(c)
                      /\ events[k].access_type = "file_access"

\* a returned read of /etc/Password: outside the sandbox, absent, upper case
C2_Witness ==
    \E c \in Calls :
        /\ Returned(c) /\ ReadCall(c)
        /\ AbsPathOf(c) = Join(Etc, nPassword)
        /\ Fact(c).matches /\ ~Fact(c).inside /\ Fact(c).kind = "absent"
        /\ Cardinality(EventsOf(c)) = 1

(***************************************************************************)
(* C3: a read whose resolved path matches no pattern emits nothing: the    *)
(* counters and the events are unchanged by the call, no local record is   *)
(* written and no POST is made.                                            *)
(***************************************************************************)
C3_NoEventWhenNotSensitive ==
    [][\A c \in Calls :
          (/\ req[c].pc = "idle"
           /\ req'[c].op = "read"
           /\ req'[c].resolved
           /\ ~Facts[req'[c].path].matches)
              => /\ event_count' = event_count
                 /\ events' = events
                 /\ req'[c].pc = "done"
                 /\ \A k \in 1..Len(req'[c].trace) :
                        req'[c].trace[k] \notin {"count", "record", "post"}]_vars

\* a returned read of public-data.txt while another call has emitted
C3_Witness ==
    \E c, d \in Calls :
        /\ Returned(c) /\ ReadCall(c)
        /\ ~Fact(c).matches
        /\ req[c].result.kind = "content"
        /\ EventsOf(c) = {}
        /\ EventsOf(d) # {}

(***************************************************************************)
(* C4: in one process run the counter is process-wide and grows by one per *)
(* event, each event id carries the value of its own increment, and no two *)
(* events carry the same id.                                               *)
(***************************************************************************)
C4_UniqueEventIds ==
    /\ \A j, k \in 1..Len(events) :
           j # k => events[j].jti # events[k].jti
    /\ \A k \in 1..Len(events) : events[k].jti = EventId(events[k].jti[2], k)

(***************************************************************************)
(* C5: the result of a read or a listing does not depend on how the        *)
(* delivery ended: two calls for the same path return the same result, and *)
(* a sensitive, readable, regular file in the sandbox is returned with its *)
(* content when the delivery was rejected or the collector unreachable.    *)
(***************************************************************************)
C5_ResultIndependentOfDelivery ==
    /\ \A c, d \in Calls :
           (/\ Returned(c) /\ Returned(d)
            /\ req[c].op = req[d].op
            /\ req[c].path = req[d].path)
               => req[c].result = req[d].result
    /\ \A c \in Calls :
           (/\ Returned(c) /\ ReadCall(c) /\ DeliveryFailed(c)
            /\ Fact(c).inside
            /\ Fact(c).kind = "file"
            /\ Fact(c).decodes)
               => /\ req[c].result.kind = "content"
                  /\ req[c].result.content = Fact(c).content

\* api-keys.credentials read twice: delivered once, timed out once
C5_Witness ==
    \E c, d \in Calls :
        /\ Returned(c) /\ Returned(d)
        /\ ReadCall(c) /\ ReadCall(d)
        /\ req[c].path = req[d].path
        /\ req[c].outcome = "delivered"
        /\ req[d].outcome = "unreachable" /\ req[d].reply = "silent"
        /\ req[d].result.kind = "content"
        /\ req[d].result.content = "token=123"

(***************************************************************************)
(* C6: no failure leaves a handler: every returned call carries a text,    *)
(* a call in which resolution, the existence check, the read or the        *)
(* enumeration raised carries the error text and no content, and the next  *)
(* call can be served afterwards.                                          *)
(***************************************************************************)
C6_FailuresBecomeText ==
    /\ \A c \in Calls :
           Returned(c) =>
               /\ req[c].result.kind \in TextKinds
               /\ (\E k \in 1..Len(req[c].trace) : req[c].trace[k] = "raise")
                      <=> req[c].result.kind = "error"
               /\ req[c].result.kind = "error" =>
                      /\ req[c].result.content = NoContent
                      /\ req[c].result.entries = <<>>
    /\ \A c \in Calls :
           (MayStart(c) /\ \E d \in Calls : req[d].result.kind = "error")
               => /\ ENABLED handle_list_files(c, 4)
                  /\ ENABLED handle_file_read(c, 1, "none", clock)

\* a read that failed in read_text(), then a read that returned content
C6_Witness ==
    \E c, d \in Calls :
        /\ c < d
        /\ Returned(c) /\ req[c].result.error = "UnicodeDecodeError"
        /\ req[c].result.kind = "error"
        /\ Returned(d) /\ req[d].result.kind = "content"

(***************************************************************************)
(* C7: a read suspended in the POST returns: the attempt ends delivered,   *)
(* rejected or unreachable, also when the collector never answers, and the *)
(* handler goes on to the sandbox test and its return.                     *)
(***************************************************************************)
C7_ReadEventuallyReturns ==
    \A c \in Calls :
        (req[c].pc = "posting")
            ~> (/\ req[c].pc = "done"
                /\ req[c].outcome \in {"delivered", "rejected", "unreachable"}
                /\ \E k \in 1..Len(req[c].trace) : req[c].trace[k] = "sandbox")

\* a read has returned although the collector never answered its POST
C7_Witness ==
    \E c \in Calls :
        /\ Returned(c) /\ ReadCall(c)
        /\ req[c].reply = "silent"
        /\ req[c].outcome = "unreachable"
        /\ req[c].result.kind \in {"content", "denied", "notfound"}

(***************************************************************************)
(* C8, as stated: a read inside the sandbox returns the content and the    *)
(* event indicator when the path is an existing regular file, and          *)
(* not-found without content otherwise.                                    *)
(***************************************************************************)
C8_ContentOrNotFound ==
    \A c \in Calls :
        (Returned(c) /\ ReadCall(c) /\ Fact(c).inside) =>
            IF Fact(c).kind = "file"
            THEN /\ req[c].result.kind = "content"
                 /\ req[c].result.content = Fact(c).content
                 /\ req[c].result.notice <=> EventsOf(c) # {}
            ELSE /\ req[c].result.kind = "notfound"
                 /\ req[c].result.content = NoContent

(***************************************************************************)
(* C8, amended: a read inside the sandbox whose existence check or read    *)
(* raises returns the error text without content; otherwise it returns     *)
(* the content and the event indicator (present iff an event was emitted   *)
(* for the call) when the path is an existing regular file, and not-found  *)
(* without content when it is not.                                         *)
(***************************************************************************)
C8_ContentNotFoundOrError ==
    \A c \in Calls :
        (Returned(c) /\ ReadCall(c) /\ Fact(c).inside) =>
            IF Fact(c).read_raises
            THEN /\ req[c].result.kind = "error"
                 /\ req[c].result.content = NoContent
            ELSE IF Fact(c).kind = "file"
            THEN /\ req[c].result.kind = "content"
                 /\ req[c].result.content = Fact(c).content
                 /\ req[c].result.notice <=> EventsOf(c) # {}
            ELSE /\ req[c].result.kind = "notfound"
                 /\ req[c].result.content = NoContent

\* content with the indicator, content without it, not-found and the error
C8_Witness ==
    \E c, d \in Calls :
        /\ Returned(c) /\ ReadCall(c) /\ Fact(c).inside
        /\ req[c].result.kind = "content" /\ req[c].result.notice
        /\ EventsOf(c) # {}
        /\ Returned(d) /\ ReadCall(d) /\ Fact(d).inside
        /\ Fact(d).read_raises /\ req[d].result.kind = "error"

(***************************************************************************)
(* C9, as stated: a listing of an existing directory labels every          *)
(* immediate child sensitive, directory or file, sensitive first; a path   *)
(* that does not exist or is no directory yields not-found.                *)
(***************************************************************************)
Labelled(c) ==
    /\ req[c].result.kind = "listing"
    /\ req[c].result.entries = Fact(c).entries
    /\ \A k \in 1..Len(req[c].result.entries) :
           req[c].result.entries[k].label \in {"sensitive", "directory", "file"}

C9_LabelsOrNotFound ==
    \A c \in Calls :
        (Returned(c) /\ ListCall(c)) =>
            IF Fact(c).kind = "dir"
            THEN Labelled(c)
            ELSE req[c].result.kind = "notfound"

(***************************************************************************)
(* C9, amended: a listing whose existence check or enumeration raises      *)
(* returns the error text; otherwise an existing directory is listed with  *)
(* every immediate child labelled sensitive, directory or file, sensitive  *)
(* first, and a path that does not exist or is no directory yields         *)
(* not-found.                                                              *)
(***************************************************************************)
C9_LabelsNotFoundOrError ==
    \A c \in Calls :
        (Returned(c) /\ ListCall(c)) =>
            IF Fact(c).list_raises
            THEN req[c].result.kind = "error" /\ req[c].result.entries = <<>>
            ELSE IF Fact(c).kind = "dir"
            THEN Labelled(c)
            ELSE req[c].result.kind = "notfound"

\* the listing of Secure: both children sensitive by their path, one a directory
C9_Witness ==
    \E c \in Calls :
        /\ Returned(c) /\ ListCall(c)
        /\ AbsPathOf(c) = Join(TestFiles, nSecure)
        /\ Len(req[c].result.entries) = 2
        /\ req[c].result.entries[2].name = nOld
        /\ req[c].result.entries[2].label = "sensitive"
        /\ Kind(Join(AbsPathOf(c), nOld)) = "dir"

(***************************************************************************)
(* C10: containment is by path segment: a read passes the sandbox test     *)
(* iff its resolved path is the root or begins with the root and a         *)
(* separator, so a sibling such as /workspace/test-files-evil/x is denied. *)
(***************************************************************************)
C10_SegmentAwareContainment ==
    \A c \in Calls :
        (Returned(c) /\ ReadCall(c)) =>
            /\ Fact(c).passes_test <=> Fact(c).inside
            /\ req[c].result.kind = "denied" <=> ~Fact(c).inside

StepsOf(c, step) == {k \in 1..Len(req[c].trace) : req[c].trace[k] = step}

InTrace(c, step) == StepsOf(c, step) # {}

\* every occurrence of step a comes before every occurrence of step b
Before(c, a, b) == \A j \in StepsOf(c, a), k \in StepsOf(c, b) : j < k

TerminalOutcomes == {"delivered", "rejected", "unreachable"}

\* the calls in which generate_caep_event has been entered
Emitting(c) == req[c].op = "read" /\ InTrace(c, "count")

\* the events a SecurityMCPServer has built
EventsBy(i) == {k \in 1..Len(events) : events[k].instance = i}

(***************************************************************************)
(* C12: in every emit the local record is written before the POST starts,  *)
(* and it is written in every emit, also one whose delivery is rejected,   *)
(* refused or timed out: the local records are as many as the emits        *)
(* started, one per event and in the order of the events.                  *)
(***************************************************************************)
C12_RecordBeforeDelivery ==
    /\ Len(console) = Cardinality({c \in Calls : Emitting(c)})
    /\ Len(console) = Len(events)
    /\ \A k \in 1..Len(console) :
           /\ console[k].event_id = events[k].jti
           /\ console[k].file = events[k].file_path
    /\ \A c \in Calls :
           Emitting(c) =>
               /\ Cardinality(StepsOf(c, "record")) = 1
               /\ Before(c, "count", "record")
               /\ Before(c, "record", "post")
               /\ \E k \in EventsOf(c) : console[k].event_id = events[k].jti

\* two emits, one timed out and returned, one rejected: two local records
C12_Witness ==
    \E c, d \in Calls :
        /\ Emitting(c) /\ Returned(c)
        /\ req[c].reply = "silent" /\ req[c].outcome = "unreachable"
        /\ Emitting(d) /\ req[d].reply = "500"
        /\ Len(console) = 2

(***************************************************************************)
(* C13: an emit makes one POST and ends in exactly one of delivered (200), *)
(* rejected (another status) and unreachable (connection error or          *)
(* timeout); there is no second attempt and no exception leaves the emit.  *)
(***************************************************************************)
C13_OneAttemptThreeOutcomes ==
    \A c \in Calls :
        Emitting(c) =>
            /\ Cardinality(StepsOf(c, "post")) = 1
            /\ Returned(c) =>
                   /\ req[c].outcome \in TerminalOutcomes
                   /\ req[c].outcome = "delivered" <=> req[c].reply = "200"
                   /\ req[c].outcome = "rejected" <=> req[c].reply = "500"
                   /\ req[c].outcome = "unreachable"
                          <=> req[c].reply \in {"refused", "silent"}
                   /\ Cardinality({k \in 1..Len(req[c].trace) :
                                      req[c].trace[k] \in TerminalOutcomes}) = 1
                   /\ Before(c, "post", req[c].outcome)
                   /\ req[c].result.error \notin {"ClientConnectorError", "TimeoutError"}

\* one emit rejected with status 500, one refused by the collector
C13_Witness ==
    \E c, d \in Calls :
        /\ Emitting(c) /\ Returned(c)
        /\ req[c].reply = "500" /\ req[c].outcome = "rejected"
        /\ Emitting(d) /\ Returned(d)
        /\ req[d].reply = "refused" /\ req[d].outcome = "unreachable"

(***************************************************************************)
(* C14: while a read is suspended in its POST the server serves other      *)
(* calls: the next read or listing can start, and return, before the       *)
(* pending delivery ends; and what a call returns is decided by its own    *)
(* path and the filesystem, whatever ran in between.                       *)
(***************************************************************************)
\* what a read of requested path p returns, from the path and the filesystem
ReadKindOf(p) ==
    IF ~Resolved[p].ok THEN "error"
    ELSE IF ~Facts[p].passes_test THEN "denied"
    ELSE IF Facts[p].read_raises THEN "error"
    ELSE IF Facts[p].kind = "file" THEN "content"
    ELSE "notfound"

\* what a listing of requested path p returns
ListKindOf(p) ==
    IF ~Resolved[p].ok THEN "error"
    ELSE IF Facts[p].list_raises THEN "error"
    ELSE IF Facts[p].kind = "dir" THEN "listing"
    ELSE "notfound"

C14_ServesWhilePosting ==
    /\ \A c \in Calls :
           (/\ driver = "server"
            /\ req[c].pc = "idle"
            /\ \A d \in Calls : d < c => req[d].pc # "idle"
            /\ \E d \in Calls : req[d].pc = "posting")
               => /\ ENABLED handle_list_files(c, 4)
                  /\ ENABLED handle_file_read(c, 1, "none", clock)
    /\ \A c \in Calls :
           Returned(c) =>
               /\ req[c].op = "read" =>
                      /\ req[c].result.kind = ReadKindOf(req[c].path)
                      /\ req[c].result.kind = "content" =>
                             req[c].result.content = Fact(c).content
               /\ req[c].op = "list" =>
                      /\ req[c].result.kind = ListKindOf(req[c].path)
                      /\ req[c].result.kind = "listing" =>
                             req[c].result.entries = Fact(c).entries

\* a read is still in its POST and a later call has returned its content
C14_Witness ==
    \E c, d \in Calls :
        /\ c < d
        /\ req[c].pc = "posting"
        /\ Returned(d)
        /\ req[d].result.kind = "content"
        /\ req[d].result.content = "public data"

(***************************************************************************)
(* C15: the counter of a server equals the number of emits it has started, *)
(* and no step lowers it: the end of a delivery, delivered, rejected or    *)
(* unreachable, leaves the counter as the emit set it.                     *)
(***************************************************************************)
C15_CounterCountsEmits ==
    [][/\ \A i \in Instances :
              /\ event_count'[i] >= event_count[i]
              /\ event_count'[i] =
                     Cardinality({k \in 1..Len(events') : events'[k].instance = i})
       /\ (\E c \in Calls : req[c].pc = "posting" /\ req'[c].pc = "done")
              => event_count' = event_count]_vars

\* two emits of one server, one timed out, one rejected: the counter is 2
C15_Witness ==
    \E c, d \in Calls :
        /\ Returned(c) /\ req[c].reply = "silent" /\ req[c].outcome = "unreachable"
        /\ Returned(d) /\ req[d].outcome = "rejected"
        /\ InstanceOf(c) = InstanceOf(d)
        /\ event_count[InstanceOf(c)] = 2
        /\ Cardinality(EventsBy(InstanceOf(c))) = 2

C17_ListNeverEmits ==
    [][\A c \in Calls :
          (req[c].pc = "idle" /\ req'[c].op = "list")
              => /\ event_count' = event_count
                 /\ events' = events
                 /\ console' = console
                 /\ req'[c].pc = "done"
                 /\ \A k \in 1..Len(req'[c].trace) :
                        req'[c].trace[k] \notin {"count", "record", "post"}]_vars

\* Secure/old, whose path matches "/secure/", and Secure, whose children are
\* sensitive, have been listed and there is no event
C17_Witness ==
    \E c, d \in Calls :
        /\ Returned(c) /\ ListCall(c)
        /\ Fact(c).matches /\ req[c].result.kind = "listing"
        /\ Returned(d) /\ ListCall(d)
        /\ \E k \in 1..Len(req[d].result.entries) :
               req[d].result.entries[k].label = "sensitive"
        /\ events = <<>> /\ console = <<>>
        /\ \A i \in Instances : event_count[i] = 0

(***************************************************************************)
(* C18: in a read of a sensitive path the emit, up to the end of its       *)
(* delivery, precedes the sandbox test, the existence check and the read:  *)
(* nothing is returned while the POST is pending, and for a path outside   *)
(* /workspace/test-files neither the existence check nor the read is made. *)
(***************************************************************************)
C18_EmitBeforeChecks ==
    \A c \in Calls :
        (ReadCall(c) /\ Fact(c).matches) =>
            /\ req[c].pc = "posting" =>
                   /\ req[c].result = NoResult
                   /\ ~InTrace(c, "sandbox")
                   /\ ~InTrace(c, "exists")
                   /\ ~InTrace(c, "read")
            /\ Returned(c) =>
                   /\ Before(c, "post", "sandbox")
                   /\ \A k \in StepsOf(c, "sandbox") :
                          \E j \in 1..(k - 1) : req[c].trace[j] \in TerminalOutcomes
                   /\ Before(c, "sandbox", "exists")
                   /\ Before(c, "exists", "read")
                   /\ ~Fact(c).inside =>
                          /\ ~InTrace(c, "exists")
                          /\ ~InTrace(c, "read")

====
